---- MODULE Spec2Model ----
(***************************************************************************)
(* Game of Life on the GPU (src/index.ts): initialisation of the device,   *)
(* the uniform buffer and the two cell-state buffers, the bind-group pair, *)
(* and the timer-driven updateGrid tick that records one compute pass and  *)
(* one render pass and submits them to the device queue.                   *)
(***************************************************************************)
EXTENDS Integers, Sequences, FiniteSets, TLC

\* ---------------------------------------------------------------- bounds
MaxGrid == 3        \* grid dimensions explored: 1..MaxGrid
MaxWorkgroup == 2   \* workgroup sizes explored: 1..MaxWorkgroup
MaxStep == 3        \* ticks explored per behaviour
MaxPending == 2     \* timer callbacks that may be waiting in the task queue

VARIABLES
    GRID_SIZE,        \* index.ts:28
    WORKGROUP_SIZE,   \* index.ts:2 (imported from ComputeShader)
    pc,               \* position of init()
    error,            \* the Error init() threw, "none" otherwise
    created,          \* GPU objects created so far
    deviceLost,       \* the GPUDevice is lost
    lostAt,           \* tickPc at the moment the device was lost
    uniformBuffer,    \* contents of "Grid Uniforms"
    cellStateArray,   \* host Uint32Array
    seedI,            \* loop variable i of the seeding loop
    bufs,             \* contents of "Cell State A" / "Cell State B"
    step,             \* index.ts:176
    pending,          \* timer callbacks queued by setInterval, not yet run
    tickPc,           \* position of updateGrid()
    encoder,          \* command encoder of the running updateGrid()
    started,          \* updateGrid() calls begun
    ticksDone,        \* updateGrid() calls returned
    computeCount,     \* compute passes recorded
    renderCount,      \* render passes recorded
    submitLog,        \* command buffers handed to queue.submit, in order
    gpuQueue,         \* command buffers submitted and not yet executed
    execd,            \* command buffers executed by the device
    access,           \* buffers read / written by the last executed batch
    writes            \* per index, stores done by the last executed dispatch

vars == <<GRID_SIZE, WORKGROUP_SIZE, pc, error, created, deviceLost, lostAt,
          uniformBuffer, cellStateArray, seedI, bufs, step, pending, tickPc,
          encoder, started, ticksDone, computeCount, renderCount, submitLog,
          gpuQueue, execd, access, writes>>

initVars == <<pc, error, created, uniformBuffer, cellStateArray, seedI>>
tickVars == <<step, pending, tickPc, encoder, started, ticksDone,
              computeCount, renderCount, submitLog>>
gpuVars  == <<execd, access, writes>>

\* ------------------------------------------------------- static wiring
cellStateStorage == (0 :> "A") @@ (1 :> "B")

NoAccess == [computeReads |-> {}, computeWrites |-> {},
             renderReads |-> {}, renderWrites |-> {}]

NoEncoder == [tick |-> -1, cmds |-> <<>>]

bindGroupLayoutVertexWrites ==
    (0 :> [visibility |-> {"FRAGMENT", "COMPUTE", "VERTEX"}, type |-> "uniform"]) @@
    (1 :> [visibility |-> {"COMPUTE", "VERTEX"}, type |-> "read-only-storage"]) @@
    (2 :> [visibility |-> {"COMPUTE", "VERTEX"}, type |-> "storage"])

bindGroupLayout ==
    (0 :> [visibility |-> {"FRAGMENT", "COMPUTE", "VERTEX"}, type |-> "uniform"]) @@
    (1 :> [visibility |-> {"COMPUTE", "VERTEX"}, type |-> "read-only-storage"]) @@
    (2 :> [visibility |-> {"COMPUTE"}, type |-> "storage"])

bindGroupsBothAtoB ==
    (0 :> ((0 :> "uniformBuffer") @@ (1 :> cellStateStorage[0]) @@ (2 :> cellStateStorage[1]))) @@
    (1 :> ((0 :> "uniformBuffer") @@ (1 :> cellStateStorage[0]) @@ (2 :> cellStateStorage[1])))

bindGroups ==
    (0 :> ((0 :> "uniformBuffer") @@ (1 :> cellStateStorage[0]) @@ (2 :> cellStateStorage[1]))) @@
    (1 :> ((0 :> "uniformBuffer") @@ (1 :> cellStateStorage[1]) @@ (2 :> cellStateStorage[0])))

\* buffers a pass may store to through bind group g, per the layout
Writable(stages, g) ==
    { bindGroups[g][b] : b \in { c \in DOMAIN bindGroupLayout :
          /\ bindGroupLayout[c].visibility \cap stages # {}
          /\ bindGroupLayout[c].type = "storage" } }

\* ------------------------------------------------------------ helpers
Zeros(n) == [i \in 0..(n - 1) |-> 0]

workgroupCountFloor(n, w) == n \div w

\* Math.ceil(GRID_SIZE / WORKGROUP_SIZE)
workgroupCount(n, w) == IF n % w = 0 THEN n \div w ELSE (n \div w) + 1

\* ------------------------------------------------ simulation shader
\* grid is the content of the uniform buffer, <<width, height>>
cellIndex(grid, x, y) == (y % grid[2]) * grid[1] + (x % grid[1])

cellActive(grid, in, x, y) == in[cellIndex(grid, x, y)]

activeNeighbors(grid, in, x, y) ==
    cellActive(grid, in, x + 1, y + 1) + cellActive(grid, in, x + 1, y) +
    cellActive(grid, in, x + 1, y - 1) + cellActive(grid, in, x, y - 1) +
    cellActive(grid, in, x - 1, y - 1) + cellActive(grid, in, x - 1, y) +
    cellActive(grid, in, x - 1, y + 1) + cellActive(grid, in, x, y + 1)

\* one invocation; st = [bufs, writes]; g is the bound bind group
computeMain(st, grid, g, x, y) ==
    IF x >= grid[1] \/ y >= grid[2] THEN st
    ELSE LET in  == st.bufs[bindGroups[g][1]]
             n   == activeNeighbors(grid, in, x, y)
             i   == cellIndex(grid, x, y)
             v   == IF n = 2 THEN in[i] ELSE IF n = 3 THEN 1 ELSE 0
         IN  [bufs   |-> [st.bufs EXCEPT ![bindGroups[g][2]][i] = v],
              writes |-> [st.writes EXCEPT ![i] = @ + 1]]

RECURSIVE RunInvocations(_, _, _, _, _)
RunInvocations(k, dim, st, grid, g) ==
    IF k = dim * dim THEN st
    ELSE RunInvocations(k + 1, dim,
                        computeMain(st, grid, g, k % dim, k \div dim), grid, g)

\* dispatchWorkgroups(wg, wg) with workgroups of WORKGROUP_SIZE^2 invocations
Dispatch(b, grid, g, wg) ==
    LET dim == wg * WORKGROUP_SIZE
        top == IF dim * dim > grid[1] * grid[2] THEN dim * dim
               ELSE grid[1] * grid[2]
    IN  RunInvocations(0, dim, [bufs |-> b, writes |-> Zeros(top)], grid, g)

\* ------------------------------------------------------------- init()
Init ==
    /\ GRID_SIZE \in 1..MaxGrid
    /\ WORKGROUP_SIZE \in 1..MaxWorkgroup
    /\ pc = "start"
    /\ error = "none"
    /\ created = {}
    /\ deviceLost = FALSE
    /\ lostAt = "none"
    /\ uniformBuffer = <<>>
    /\ cellStateArray = <<>>
    /\ seedI = 0
    /\ bufs = <<>>
    /\ step = 0
    /\ pending = 0
    /\ tickPc = "idle"
    /\ encoder = NoEncoder
    /\ started = 0
    /\ ticksDone = 0
    /\ computeCount = 0
    /\ renderCount = 0
    /\ submitLog = <<>>
    /\ gpuQueue = <<>>
    /\ execd = 0
    /\ access = NoAccess
    /\ writes = <<>>

Fail(msg) ==
    /\ pc' = "failed"
    /\ error' = msg
    /\ UNCHANGED <<created, uniformBuffer, cellStateArray, seedI>>

\* lines 7-11
CheckGpu ==
    /\ pc = "start"
    /\ \E gpu \in BOOLEAN :
          IF ~gpu THEN Fail("WebGPU not supported on this browser")
          ELSE /\ pc' = "requestAdapter"
               /\ UNCHANGED <<error, created, uniformBuffer, cellStateArray, seedI>>
    /\ UNCHANGED <<GRID_SIZE, WORKGROUP_SIZE, deviceLost, lostAt, bufs,
                   tickVars, gpuQueue, gpuVars>>

\* lines 13-16
RequestAdapter ==
    /\ pc = "requestAdapter"
    /\ \E adaptor \in BOOLEAN :
          IF ~adaptor THEN Fail("No appropriate GPUAdapter found.")
          ELSE /\ pc' = "requestDevice"
               /\ UNCHANGED <<error, created, uniformBuffer, cellStateArray, seedI>>
    /\ UNCHANGED <<GRID_SIZE, WORKGROUP_SIZE, deviceLost, lostAt, bufs,
                   tickVars, gpuQueue, gpuVars>>

\* line 18; a rejected promise makes init() throw
RequestDevice ==
    /\ pc = "requestDevice"
    /\ \E ok \in BOOLEAN :
          IF ~ok THEN Fail("requestDevice rejected")
          ELSE /\ pc' = "getContext"
               /\ created' = created \cup {"device"}
               /\ UNCHANGED <<error, uniformBuffer, cellStateArray, seedI>>
    /\ UNCHANGED <<GRID_SIZE, WORKGROUP_SIZE, deviceLost, lostAt, bufs,
                   tickVars, gpuQueue, gpuVars>>

GetContextLate ==
    /\ pc = "getContext"
    /\ \E context \in BOOLEAN :
          IF ~context
          THEN /\ pc' = "failed"
               /\ error' = "Could not get canvas context"
               /\ created' = created \cup {"uniformBuffer"}
               /\ UNCHANGED <<uniformBuffer, cellStateArray, seedI>>
          ELSE /\ pc' = "createUniform"
               /\ UNCHANGED <<error, created, uniformBuffer, cellStateArray, seedI>>
    /\ UNCHANGED <<GRID_SIZE, WORKGROUP_SIZE, deviceLost, lostAt, bufs,
                   tickVars, gpuQueue, gpuVars>>

\* lines 20-26
GetContext ==
    /\ pc = "getContext"
    /\ \E context \in BOOLEAN :
          IF ~context THEN Fail("Could not get canvas context")
          ELSE /\ pc' = "createUniform"
               /\ UNCHANGED <<error, created, uniformBuffer, cellStateArray, seedI>>
    /\ UNCHANGED <<GRID_SIZE, WORKGROUP_SIZE, deviceLost, lostAt, bufs,
                   tickVars, gpuQueue, gpuVars>>

\* lines 30-36
CreateUniform ==
    /\ pc = "createUniform"
    /\ pc' = "createCells"
    /\ created' = created \cup {"uniformBuffer"}
    /\ uniformBuffer' = <<GRID_SIZE, GRID_SIZE>>
    /\ UNCHANGED <<GRID_SIZE, WORKGROUP_SIZE, error, deviceLost, lostAt,
                   cellStateArray, seedI, bufs, tickVars, gpuQueue, gpuVars>>

\* lines 38-50; new buffers and typed arrays are zero-filled
CreateCells ==
    /\ pc = "createCells"
    /\ pc' = "seed"
    /\ created' = created \cup {"Cell State A", "Cell State B"}
    /\ cellStateArray' = Zeros(GRID_SIZE * GRID_SIZE)
    /\ bufs' = [b \in {"A", "B"} |-> Zeros(GRID_SIZE * GRID_SIZE)]
    /\ seedI' = 0
    /\ UNCHANGED <<GRID_SIZE, WORKGROUP_SIZE, error, deviceLost, lostAt,
                   uniformBuffer, tickVars, gpuQueue, gpuVars>>

SeedEveryCell ==
    /\ pc = "seed"
    /\ IF seedI < GRID_SIZE * GRID_SIZE
       THEN /\ \E r \in {0, 1} :
                  cellStateArray' = [cellStateArray EXCEPT ![seedI] = r]
            /\ seedI' = seedI + 1
            /\ pc' = pc
       ELSE /\ pc' = "writeA"
            /\ UNCHANGED <<cellStateArray, seedI>>
    /\ UNCHANGED <<GRID_SIZE, WORKGROUP_SIZE, error, created, deviceLost, lostAt,
                   uniformBuffer, bufs, tickVars, gpuQueue, gpuVars>>

\* lines 52-54; r is the outcome of Math.random() > 0.4 ? 1 : 0
Seed ==
    /\ pc = "seed"
    /\ IF seedI < GRID_SIZE * GRID_SIZE
       THEN /\ \E r \in {0, 1} :
                  cellStateArray' = [cellStateArray EXCEPT ![seedI] = r]
            /\ seedI' = seedI + 3
            /\ pc' = pc
       ELSE /\ pc' = "writeA"
            /\ UNCHANGED <<cellStateArray, seedI>>
    /\ UNCHANGED <<GRID_SIZE, WORKGROUP_SIZE, error, created, deviceLost, lostAt,
                   uniformBuffer, bufs, tickVars, gpuQueue, gpuVars>>

\* line 55
WriteBufferA ==
    /\ pc = "writeA"
    /\ pc' = "writeB"
    /\ bufs' = [bufs EXCEPT !["A"] = cellStateArray]
    /\ UNCHANGED <<GRID_SIZE, WORKGROUP_SIZE, error, created, deviceLost, lostAt,
                   uniformBuffer, cellStateArray, seedI, tickVars, gpuQueue, gpuVars>>

WriteBufferBSkipped ==
    /\ pc = "writeB"
    /\ pc' = "wiring"
    /\ UNCHANGED <<GRID_SIZE, WORKGROUP_SIZE, error, created, deviceLost, lostAt,
                   uniformBuffer, cellStateArray, seedI, bufs, tickVars,
                   gpuQueue, gpuVars>>

\* line 56
WriteBufferB ==
    /\ pc = "writeB"
    /\ pc' = "wiring"
    /\ bufs' = [bufs EXCEPT !["B"] = cellStateArray]
    /\ UNCHANGED <<GRID_SIZE, WORKGROUP_SIZE, error, created, deviceLost, lostAt,
                   uniformBuffer, cellStateArray, seedI, tickVars, gpuQueue, gpuVars>>

\* lines 58-173: vertex buffer, shader modules, layout, bind groups, pipelines
Wiring ==
    /\ pc = "wiring"
    /\ pc' = "startTimer"
    /\ created' = created \cup {"vertexBuffer", "bindGroupLayout", "bindGroups",
                                "pipelineLayout", "cellPipeline", "simulatePipeline"}
    /\ UNCHANGED <<GRID_SIZE, WORKGROUP_SIZE, error, deviceLost, lostAt,
                   uniformBuffer, cellStateArray, seedI, bufs, tickVars,
                   gpuQueue, gpuVars>>

\* lines 175-177
StartTimer ==
    /\ pc = "startTimer"
    /\ pc' = "running"
    /\ step' = 0
    /\ UNCHANGED <<GRID_SIZE, WORKGROUP_SIZE, error, created, deviceLost, lostAt,
                   uniformBuffer, cellStateArray, seedI, bufs, pending, tickPc,
                   encoder, started, ticksDone, computeCount, renderCount,
                   submitLog, gpuQueue, gpuVars>>

\* ------------------------------------------------------ timer and tick
\* setInterval(updateGrid, UPDATE_INTERVAL): the timer queues one more callback
TimerFire ==
    /\ pc = "running"
    /\ pending < MaxPending
    /\ pending' = pending + 1
    /\ UNCHANGED <<GRID_SIZE, WORKGROUP_SIZE, initVars, deviceLost, lostAt, bufs,
                   step, tickPc, encoder, started, ticksDone, computeCount,
                   renderCount, submitLog, gpuQueue, gpuVars>>

StartTickReentrant ==
    /\ pc = "running"
    /\ pending > 0
    /\ step < MaxStep
    /\ pending' = pending - 1
    /\ tickPc' = "compute"
    /\ encoder' = [tick |-> started, cmds |-> <<>>]
    /\ started' = started + 1
    /\ UNCHANGED <<GRID_SIZE, WORKGROUP_SIZE, initVars, deviceLost, lostAt, bufs,
                   step, ticksDone, computeCount, renderCount, submitLog,
                   gpuQueue, gpuVars>>

\* lines 181-184: the event loop runs a queued callback when no callback is
\* running; updateGrid creates its encoder and begins the compute pass
StartTick ==
    /\ pc = "running"
    /\ tickPc = "idle"
    /\ pending > 0
    /\ step < MaxStep
    /\ pending' = pending - 1
    /\ tickPc' = "compute"
    /\ encoder' = [tick |-> started, cmds |-> <<>>]
    /\ started' = started + 1
    /\ UNCHANGED <<GRID_SIZE, WORKGROUP_SIZE, initVars, deviceLost, lostAt, bufs,
                   step, ticksDone, computeCount, renderCount, submitLog,
                   gpuQueue, gpuVars>>

RecordComputeOtherGroup ==
    /\ tickPc = "compute"
    /\ encoder' = [encoder EXCEPT !.cmds = Append(@,
                      [kind |-> "compute", bg |-> (step + 1) % 2,
                       wg |-> workgroupCount(GRID_SIZE, WORKGROUP_SIZE)])]
    /\ computeCount' = computeCount + 1
    /\ tickPc' = "inc"
    /\ UNCHANGED <<GRID_SIZE, WORKGROUP_SIZE, initVars, deviceLost, lostAt, bufs,
                   step, pending, started, ticksDone, renderCount, submitLog,
                   gpuQueue, gpuVars>>

\* lines 186-192
RecordCompute ==
    /\ tickPc = "compute"
    /\ encoder' = [encoder EXCEPT !.cmds = Append(@,
                      [kind |-> "compute", bg |-> step % 2,
                       wg |-> workgroupCount(GRID_SIZE, WORKGROUP_SIZE)])]
    /\ computeCount' = computeCount + 1
    /\ tickPc' = "inc"
    /\ UNCHANGED <<GRID_SIZE, WORKGROUP_SIZE, initVars, deviceLost, lostAt, bufs,
                   step, pending, started, ticksDone, renderCount, submitLog,
                   gpuQueue, gpuVars>>

StepIncrementByTwo ==
    /\ tickPc = "inc"
    /\ step' = step + 2
    /\ tickPc' = "render"
    /\ UNCHANGED <<GRID_SIZE, WORKGROUP_SIZE, initVars, deviceLost, lostAt, bufs,
                   pending, encoder, started, ticksDone, computeCount,
                   renderCount, submitLog, gpuQueue, gpuVars>>

\* line 194
StepIncrement ==
    /\ tickPc = "inc"
    /\ step' = step + 1
    /\ tickPc' = "render"
    /\ UNCHANGED <<GRID_SIZE, WORKGROUP_SIZE, initVars, deviceLost, lostAt, bufs,
                   pending, encoder, started, ticksDone, computeCount,
                   renderCount, submitLog, gpuQueue, gpuVars>>

\* lines 196-210
RecordRender ==
    /\ tickPc = "render"
    /\ encoder' = [encoder EXCEPT !.cmds = Append(@,
                      [kind |-> "render", bg |-> step % 2, wg |-> 0])]
    /\ renderCount' = renderCount + 1
    /\ tickPc' = "submit"
    /\ UNCHANGED <<GRID_SIZE, WORKGROUP_SIZE, initVars, deviceLost, lostAt, bufs,
                   step, pending, started, ticksDone, computeCount, submitLog,
                   gpuQueue, gpuVars>>

\* line 211; a lost device drops what is submitted to it
Submit ==
    /\ tickPc = "submit"
    /\ submitLog' = Append(submitLog, encoder)
    /\ gpuQueue' = IF deviceLost THEN gpuQueue ELSE Append(gpuQueue, encoder)
    /\ ticksDone' = ticksDone + 1
    /\ tickPc' = "idle"
    /\ encoder' = NoEncoder
    /\ UNCHANGED <<GRID_SIZE, WORKGROUP_SIZE, initVars, deviceLost, lostAt, bufs,
                   step, pending, started, computeCount, renderCount, gpuVars>>

\* ------------------------------------------------------------- device
\* st = [bufs, writes, access]
ExecCommand(st, cmd) ==
    IF cmd.kind = "compute"
    THEN LET r == Dispatch(st.bufs, uniformBuffer, cmd.bg, cmd.wg)
         IN  [bufs   |-> r.bufs,
              writes |-> r.writes,
              access |-> [st.access EXCEPT
                  !.computeReads  = {bindGroups[cmd.bg][0], bindGroups[cmd.bg][1]},
                  !.computeWrites = {bindGroups[cmd.bg][2]}
                                       \cap Writable({"COMPUTE"}, cmd.bg)]]
    ELSE [st EXCEPT
              !.access.renderReads  = {bindGroups[cmd.bg][0], bindGroups[cmd.bg][1]},
              !.access.renderWrites = Writable({"VERTEX", "FRAGMENT"}, cmd.bg)]

RECURSIVE ExecCommands(_, _)
ExecCommands(st, cmds) ==
    IF cmds = <<>> THEN st
    ELSE ExecCommands(ExecCommand(st, Head(cmds)), Tail(cmds))

\* the device executes the oldest submitted command buffer
GpuExecute ==
    /\ gpuQueue # <<>>
    /\ ~deviceLost
    /\ LET r == ExecCommands([bufs |-> bufs, writes |-> writes, access |-> NoAccess],
                             Head(gpuQueue).cmds)
       IN  /\ bufs' = r.bufs
           /\ writes' = r.writes
           /\ access' = r.access
    /\ gpuQueue' = Tail(gpuQueue)
    /\ execd' = execd + 1
    /\ UNCHANGED <<GRID_SIZE, WORKGROUP_SIZE, initVars, deviceLost, lostAt, tickVars>>

\* the device is lost while the simulation runs; queued work is never executed
DeviceLost ==
    /\ pc = "running"
    /\ ~deviceLost
    /\ deviceLost' = TRUE
    /\ lostAt' = tickPc
    /\ gpuQueue' = <<>>
    /\ UNCHANGED <<GRID_SIZE, WORKGROUP_SIZE, initVars, bufs, tickVars, gpuVars>>

Next ==
    \/ CheckGpu
    \/ RequestAdapter
    \/ RequestDevice
    \/ GetContext
    \/ CreateUniform
    \/ CreateCells
    \/ Seed
    \/ WriteBufferA
    \/ WriteBufferB
    \/ Wiring
    \/ StartTimer
    \/ TimerFire
    \/ StartTick
    \/ RecordCompute
    \/ StepIncrement
    \/ RecordRender
    \/ Submit
    \/ GpuExecute
    \/ DeviceLost

Spec == Init /\ [][Next]_vars

\* ------------------------------------------------- reference automaton
Offsets == ({-1, 0, 1} \X {-1, 0, 1}) \ {<<0, 0>>}

\* the reference rule for cell i of generation s on the n x n torus
LifeCell(n, s, i) ==
    LET row == i \div n
        col == i % n
        cnt == Cardinality({o \in Offsets :
                  s[((row + o[2]) % n) * n + ((col + o[1]) % n)] = 1})
    IN  IF s[i] = 1 /\ cnt \in {2, 3} THEN 1
        ELSE IF s[i] = 0 /\ cnt = 3 THEN 1
        ELSE 0

\* one synchronous toroidal Game-of-Life step: every cell of the next
\* generation acc is computed from the snapshot s
RECURSIVE LifeFrom(_, _, _, _)
LifeFrom(i, n, s, acc) ==
    IF i = n * n THEN acc
    ELSE LifeFrom(i + 1, n, s, [acc EXCEPT ![i] = LifeCell(n, s, i)])

Life(n, s) == LifeFrom(0, n, s, s)

RECURSIVE LifeN(_, _, _)
LifeN(k, n, s) == IF k = 0 THEN s ELSE Life(n, LifeN(k - 1, n, s))

Seeded == pc \in {"wiring", "startTimer"} \/ (pc = "running" /\ execd = 0)

StateBuffers == {cellStateStorage[0], cellStateStorage[1]}

\* ---------------------------------------------------------------- claims
\* C1: ping-pong invariant. In every tick t (step = t when the tick starts)
\* the buffer at binding 1 of the render pass's bind group is the buffer at
\* binding 2 of the compute pass's bind group, namely buffer (t+1) % 2; the
\* device accordingly renders from the buffer the compute pass stored to.
BatchPingPong(b) ==
    /\ Len(b.cmds) = 2
    /\ b.cmds[1].kind = "compute"
    /\ b.cmds[2].kind = "render"
    /\ bindGroups[b.cmds[2].bg][1] = bindGroups[b.cmds[1].bg][2]
    /\ bindGroups[b.cmds[2].bg][1] = cellStateStorage[(b.tick + 1) % 2]

PingPongInvariant ==
    /\ tickPc = "submit" => (step = encoder.tick + 1 /\ BatchPingPong(encoder))
    /\ \A k \in 1..Len(submitLog) : BatchPingPong(submitLog[k])
    /\ execd >= 1 =>
          /\ access.renderReads \cap StateBuffers = access.computeWrites
          /\ access.computeWrites = {cellStateStorage[execd % 2]}

PingPongWitness ==
    /\ Len(submitLog) >= 2
    /\ execd >= 2
    /\ tickPc = "submit"

\* C2: the two buffers refine the reference automaton. Once the device has
\* completed tick g (g = execd - 1), buffer (g+1) % 2 holds Life^(g+1) of the
\* seeded pattern and buffer g % 2 holds Life^g of it; the dispatch that did
\* it read no buffer it stored to.
RefinesLife ==
    (pc = "running" /\ execd >= 1) =>
        /\ bufs[cellStateStorage[execd % 2]]
              = LifeN(execd, GRID_SIZE, cellStateArray)
        /\ bufs[cellStateStorage[(execd - 1) % 2]]
              = LifeN(execd - 1, GRID_SIZE, cellStateArray)
        /\ access.computeReads \cap access.computeWrites = {}

RefinesLifeWitness ==
    /\ execd >= 2
    /\ bufs["A"] # bufs["B"]
    /\ \E i \in DOMAIN cellStateArray :
          cellStateArray[i] = 0 /\ bufs[cellStateStorage[(execd - 1) % 2]][i] = 1

\* C3: when initialisation has completed and no tick has run, Cell State A
\* and Cell State B hold the same value at every one of the N*N indices, the
\* value of the host array.
SeedIdentical ==
    Seeded =>
        /\ DOMAIN bufs["A"] = 0..(GRID_SIZE * GRID_SIZE - 1)
        /\ DOMAIN bufs["B"] = 0..(GRID_SIZE * GRID_SIZE - 1)
        /\ \A i \in 0..(GRID_SIZE * GRID_SIZE - 1) :
              bufs["A"][i] = bufs["B"][i] /\ bufs["A"][i] = cellStateArray[i]

SeedIdenticalWitness ==
    /\ pc = "running"
    /\ execd = 0
    /\ bufs["A"] = bufs["B"]
    /\ \E i \in DOMAIN bufs["B"] : bufs["B"][i] = 1

\* C4: step starts at 0 and every tick records, in this order and once each,
\* a compute pass with bind group (pre-increment step) % 2, step := step + 1,
\* a render pass with bind group (post-increment step) % 2, and one submit of
\* both; after k ticks step, the compute passes, the render passes and the
\* submissions all number k.
TickBatch(b, t) ==
    b.cmds = << [kind |-> "compute", bg |-> t % 2,
                 wg |-> workgroupCount(GRID_SIZE, WORKGROUP_SIZE)],
                [kind |-> "render", bg |-> (t + 1) % 2, wg |-> 0] >>

TickStructure ==
    /\ pc # "running" => (step = 0 /\ ticksDone = 0 /\ tickPc = "idle")
    /\ Len(submitLog) = ticksDone
    /\ \A k \in 1..Len(submitLog) : TickBatch(submitLog[k], k - 1)
    /\ renderCount <= computeCount
    /\ tickPc = "idle" =>
          step = ticksDone /\ computeCount = ticksDone /\ renderCount = ticksDone
    /\ tickPc = "compute" =>
          /\ step = ticksDone /\ computeCount = ticksDone /\ renderCount = ticksDone
          /\ encoder.cmds = <<>>
    /\ tickPc = "inc" =>
          /\ step = ticksDone /\ computeCount = ticksDone + 1
          /\ renderCount = ticksDone
          /\ Len(encoder.cmds) = 1 /\ encoder.cmds[1].bg = step % 2
    /\ tickPc = "render" =>
          /\ step = ticksDone + 1 /\ computeCount = ticksDone + 1
          /\ renderCount = ticksDone
          /\ Len(encoder.cmds) = 1 /\ encoder.cmds[1].bg = (step - 1) % 2
    /\ tickPc = "submit" =>
          /\ step = ticksDone + 1 /\ computeCount = ticksDone + 1
          /\ renderCount = ticksDone + 1
          /\ TickBatch(encoder, ticksDone)

TickStructureWitness ==
    /\ ticksDone >= 2
    /\ tickPc = "idle"
    /\ step = ticksDone

\* C5: when WebGPU is unsupported, no adapter is returned or the canvas
\* context cannot be obtained, init() has thrown, and then no buffer, bind
\* group or pipeline exists, the timer is not started and updateGrid never ran.
GpuObjects == {"uniformBuffer", "Cell State A", "Cell State B", "vertexBuffer",
               "bindGroupLayout", "bindGroups", "pipelineLayout",
               "cellPipeline", "simulatePipeline"}

StartupFailureClean ==
    /\ (error # "none") <=> (pc = "failed")
    /\ pc = "failed" =>
          /\ created \cap GpuObjects = {}
          /\ uniformBuffer = <<>> /\ bufs = <<>>
          /\ pending = 0 /\ started = 0 /\ step = 0
          /\ computeCount = 0 /\ renderCount = 0 /\ submitLog = <<>>
          /\ execd = 0

StartupFailureWitness ==
    /\ pc = "failed"
    /\ error = "Could not get canvas context"
    /\ "device" \in created

\* C6: once the device is lost between two ticks, no further tick runs: no
\* updateGrid begins, step keeps its value, and no compute pass, render pass
\* or submission is issued.
DeviceLossHalts ==
    [][(deviceLost /\ lostAt = "idle") =>
          /\ started' = started
          /\ step' = step
          /\ computeCount' = computeCount
          /\ renderCount' = renderCount
          /\ submitLog' = submitLog]_vars

\* C7: in both bind groups the compute write target (binding 2) differs from
\* the compute read source (binding 1); no executed batch has a buffer that
\* the compute pass both reads and stores to, the render pass stores to no
\* buffer, and the uniform buffer keeps the value init() wrote.
NoReadWriteAliasing ==
    /\ \A g \in DOMAIN bindGroups :
          /\ bindGroups[g][2] # bindGroups[g][1]
          /\ Writable({"COMPUTE"}, g) = {bindGroups[g][2]}
          /\ Writable({"VERTEX", "FRAGMENT"}, g) = {}
    /\ access.computeReads \cap access.computeWrites = {}
    /\ access.renderWrites = {}
    /\ "uniformBuffer" \notin (access.computeWrites \cup access.renderWrites)
    /\ "uniformBuffer" \in created => uniformBuffer = <<GRID_SIZE, GRID_SIZE>>

NoReadWriteAliasingWitness ==
    /\ execd >= 2
    /\ access.computeWrites = {"A"}
    /\ access.renderReads = {"uniformBuffer", "A"}

\* C8: ticks never overlap. At most one updateGrid is running whatever the
\* timer does, the running tick sees the step it started with until it
\* increments it itself, and command buffers reach the queue in tick order.
TicksNeverOverlap ==
    /\ started - ticksDone \in {0, 1}
    /\ (tickPc = "idle") <=> (started = ticksDone)
    /\ tickPc \in {"compute", "inc"} => (encoder.tick = ticksDone /\ step = encoder.tick)
    /\ tickPc \in {"render", "submit"} =>
          (encoder.tick = ticksDone /\ step = encoder.tick + 1)
    /\ \A k \in 1..Len(submitLog) : submitLog[k].tick = k - 1
    /\ ~deviceLost => gpuQueue = SubSeq(submitLog, execd + 1, Len(submitLog))

TicksNeverOverlapWitness ==
    /\ pending = MaxPending
    /\ tickPc \in {"inc", "render"}
    /\ ticksDone >= 1
    /\ Len(gpuQueue) >= 1

\* C9: ceil(N / W) workgroups of W invocations per axis cover every cell of
\* the N x N grid; invocations outside it store nothing; so a dispatch stores
\* to each of the N*N cell indices exactly once, to no other index, and every
\* stored value is 0 or 1.
DispatchCoverage ==
    /\ workgroupCount(GRID_SIZE, WORKGROUP_SIZE) * WORKGROUP_SIZE >= GRID_SIZE
    /\ (workgroupCount(GRID_SIZE, WORKGROUP_SIZE) - 1) * WORKGROUP_SIZE < GRID_SIZE
    /\ execd >= 1 =>
          /\ \A i \in 0..(GRID_SIZE * GRID_SIZE - 1) : writes[i] = 1
          /\ \A i \in DOMAIN writes : i >= GRID_SIZE * GRID_SIZE => writes[i] = 0
          /\ \A b \in StateBuffers :
                /\ DOMAIN bufs[b] = 0..(GRID_SIZE * GRID_SIZE - 1)
                /\ \A i \in DOMAIN bufs[b] : bufs[b][i] \in {0, 1}

DispatchCoverageWitness ==
    /\ execd >= 1
    /\ GRID_SIZE = 3
    /\ WORKGROUP_SIZE = 2
    /\ DOMAIN writes = 0..15
    /\ writes[8] = 1

\* C10: strided seeding. In the pattern written to both state buffers only
\* indices that are multiples of 3 receive a random value; every other cell
\* is 0 at startup, and every cell is 0 or 1.
Strided(a) ==
    \A i \in 0..(GRID_SIZE * GRID_SIZE - 1) :
        a[i] \in {0, 1} /\ (i % 3 # 0 => a[i] = 0)

StridedSeeding ==
    /\ pc = "seed" => seedI % 3 = 0
    /\ pc \in {"seed", "writeA", "writeB", "wiring", "startTimer", "running"}
          => Strided(cellStateArray)
    /\ Seeded => (Strided(bufs["A"]) /\ Strided(bufs["B"]))

StridedSeedingWitness ==
    /\ pc = "startTimer"
    /\ GRID_SIZE = 3
    /\ bufs["A"][0] = 1
    /\ bufs["A"][3] = 0
    /\ bufs["B"][6] = 1
====
